---- MODULE Spec2Model ----
(***************************************************************************)
(* Model of the BVP analytics pipeline (bvp/data/queries/analytics.py),    *)
(* the time series collector interface (bvp/data/models/time_series.py)    *)
(* the API helpers (bvp/api/common/utils/api_utils.py) and the task run     *)
(* endpoints (bvp/api/common/implementations.py).                          *)
(*                                                                         *)
(* Numbers are exact rationals with the IEEE special values NaN and +/-inf *)
(* that numpy produces; a data frame is the sequence of its y values in    *)
(* index order (the regular index of the session's time window).           *)
(***************************************************************************)
EXTENDS Integers, Sequences, FiniteSets, TLC

VARIABLES
    resolution,            \* session["resolution"], in minutes
    metrics,               \* the metrics dict threaded through the analytics calls
    power_data,            \* frames the caller holds (returned by get_power_data)
    power_forecast_data,
    prices_data,           \* frames the caller holds (returned by get_prices_data)
    prices_forecast_data,
    weather_data,          \* frames the caller holds (returned by get_weather_data)
    weather_forecast_data,
    rev_cost_data,         \* frames returned by get_revenues_costs_data
    rev_cost_forecasts,
    called,                \* the analytics functions called in this request
    last,                  \* the last analytics call: its name, inputs and outcome
    timed_values,          \* the stored TimedValue rows of one value table
    collected,             \* the last call of TimedValue.collect / make_query
    conversion,            \* the last call of convert_to_15min
    data_sources,          \* the DataSource table as the session sees it
    ds_call,               \* the last call of get_or_create_user_data_source
    forecasting,           \* the jobs on the work queue named "forecasting"
    task_runs,             \* the stored LatestTaskRun rows
    now,                   \* the clock (datetime.utcnow)
    task_call,             \* the last call of get_task_run / post_task_run
    grouping,              \* the last call of unique_ever_seen / groups_to_dict
    requests               \* ingestion requests running in database sessions of their own

analytics_vars == <<resolution, metrics, power_data, power_forecast_data, prices_data,
                    prices_forecast_data, weather_data, weather_forecast_data,
                    rev_cost_data, rev_cost_forecasts, called, last>>

collect_vars == <<timed_values, collected>>

convert_vars == <<conversion>>

ds_vars == <<data_sources, ds_call>>

queue_vars == <<forecasting>>

task_vars == <<task_runs, now, task_call>>

message_vars == <<grouping>>

request_vars == <<requests>>

api_vars == <<queue_vars, task_vars, message_vars, request_vars>>

vars == <<analytics_vars, collect_vars, convert_vars, ds_vars, api_vars>>

-----------------------------------------------------------------------------
(* Bounds of the model *)

\* longest series fetched for one time window
MaxLen == 2

-----------------------------------------------------------------------------
(* Floating point values: rationals n/d (d > 0, lowest terms), NaN, +/-inf.  *)
(* "absent" marks a key that is not in the metrics dict.                   *)

RECURSIVE GCD(_, _)
GCD(a, b) == IF b = 0 THEN a ELSE GCD(b, a % b)

AbsInt(x) == IF x < 0 THEN -x ELSE x

Sign(x) == IF x < 0 THEN -1 ELSE IF x > 0 THEN 1 ELSE 0

Num(n, d) ==
    LET g == GCD(AbsInt(n), AbsInt(d))
        s == IF d < 0 THEN -1 ELSE 1
    IN  [t |-> "num", n |-> (s * n) \div g, d |-> (s * d) \div g]

I(x) == [t |-> "num", n |-> x, d |-> 1]

NaN == [t |-> "nan", n |-> 0, d |-> 1]

Inf(s) == [t |-> "inf", n |-> s, d |-> 1]

Absent == [t |-> "absent", n |-> 0, d |-> 1]

IsNum(a) == a.t = "num"

IsNaN(a) == a.t = "nan"

neg(a) == IF a.t = "nan" THEN NaN ELSE [a EXCEPT !.n = -a.n]

add(a, b) ==
    IF a.t = "nan" \/ b.t = "nan" THEN NaN
    ELSE IF a.t = "inf" /\ b.t = "inf" THEN (IF a.n = b.n THEN a ELSE NaN)
    ELSE IF a.t = "inf" THEN a
    ELSE IF b.t = "inf" THEN b
    ELSE Num(a.n * b.d + b.n * a.d, a.d * b.d)

sub(a, b) == add(a, neg(b))

mul(a, b) ==
    IF a.t = "nan" \/ b.t = "nan" THEN NaN
    ELSE IF a.t = "inf" \/ b.t = "inf"
         THEN (IF a.n = 0 \/ b.n = 0 THEN NaN ELSE Inf(Sign(a.n) * Sign(b.n)))
    ELSE Num(a.n * b.n, a.d * b.d)

\* numpy division: x/0 is +/-inf, 0/0 is NaN (a warning, no exception)
div(a, b) ==
    IF a.t = "nan" \/ b.t = "nan" THEN NaN
    ELSE IF a.t = "inf" THEN (IF b.t = "inf" THEN NaN
                              ELSE Inf(a.n * (IF b.n < 0 THEN -1 ELSE 1)))
    ELSE IF b.t = "inf" THEN I(0)
    ELSE IF b.n = 0 THEN (IF a.n = 0 THEN NaN ELSE Inf(Sign(a.n)))
    ELSE Num(a.n * b.d, a.d * b.n)

abs(a) == IF a.t = "nan" THEN NaN ELSE [a EXCEPT !.n = AbsInt(a.n)]

\* a <= b on floats: false when either side is NaN
leq(a, b) ==
    /\ a.t # "nan" /\ b.t # "nan"
    /\ IF a.t = "inf" THEN (a.n = -1 \/ (b.t = "inf" /\ b.n = 1))
       ELSE IF b.t = "inf" THEN b.n = 1
       ELSE a.n * b.d <= b.n * a.d

Zero == I(0)

Hundred == I(100)

-----------------------------------------------------------------------------
(* Series helpers *)

\* element-wise operations on equally indexed series of floats
ToFloats(s) == [i \in 1..Len(s) |-> I(s[i])]

Scale(s, f) == [i \in 1..Len(s) |-> mul(s[i], f)]

RECURSIVE SumUpTo(_, _)
SumUpTo(s, k) == IF k = 0 THEN Zero ELSE add(SumUpTo(s, k - 1), s[k])

\* np.sum
sum(s) == SumUpTo(s, Len(s))

\* np.nansum: NaN entries count as zero
nansum(s) == sum([i \in 1..Len(s) |-> IF IsNaN(s[i]) THEN Zero ELSE s[i]])

\* np.mean: NaN for an empty array (0/0)
mean(s) == div(sum(s), I(Len(s)))

\* pandas Series.mean: skips NaN, NaN for an empty series
series_mean(s) ==
    LET kept == SelectSeq(s, LAMBDA v : ~IsNaN(v))
    IN  IF Len(kept) = 0 THEN NaN ELSE div(sum(kept), I(Len(kept)))

-----------------------------------------------------------------------------
(* bvp.utils.calculations and bvp.utils.time_utils (metric definitions)    *)

\* hours per time step of the session's resolution
resolution_to_hour_factor(res) == Num(res, 60)

AbsErrors(y, yhat) == [i \in 1..Len(y) |-> abs(sub(y[i], yhat[i]))]

\* MAE = mean(|realised - forecast|)
mean_absolute_error(y, yhat) == mean(AbsErrors(y, yhat))

\* MAPE = mean(|realised - forecast| / |realised|) * 100
mean_absolute_percentage_error(y, yhat) ==
    mul(mean([i \in 1..Len(y) |-> div(abs(sub(y[i], yhat[i])), abs(y[i]))]), Hundred)

\* WAPE = sum(|realised - forecast|) / sum(|realised|) * 100
weighted_absolute_percentage_error(y, yhat) ==
    mul(div(sum(AbsErrors(y, yhat)), sum([i \in 1..Len(y) |-> abs(y[i])])), Hundred)

-----------------------------------------------------------------------------
(* Data frames *)

\* columns of the frames the collector returns
columns == {"y", "horizon", "label"}

\* DataFrame.empty
empty(df) == Len(df) = 0

\* DataFrame.size: rows times columns
size(df) == Len(df) * Cardinality(columns)

\* y *= -1
negated(df) == [i \in 1..Len(df) |-> -df[i]]

-----------------------------------------------------------------------------
(* The metrics dict *)

PowerKeys == {"realised_power_in_mwh", "expected_power_in_mwh", "mae_power_in_mwh",
              "mape_power", "wape_power"}

PriceKeys == {"realised_unit_price", "expected_unit_price", "mae_unit_price",
              "mape_unit_price", "wape_unit_price"}

WeatherKeys == {"realised_weather", "expected_weather", "mae_weather",
                "mape_weather", "wape_weather"}

RevenueKeys == {"realised_revenues_costs", "expected_revenues_costs",
                "mae_revenues_costs", "mape_revenues_costs", "wape_revenues_costs"}

MetricKeys == PowerKeys \cup PriceKeys \cup WeatherKeys \cup RevenueKeys

\* metrics = dict()
EmptyMetrics == [k \in MetricKeys |-> Absent]

\* metrics[k] = v for the keys of the record w
Write(m, w) == [k \in MetricKeys |-> IF k \in DOMAIN w THEN w[k] ELSE m[k]]

-----------------------------------------------------------------------------
(* get_power_data: realised and forecast power of the session's resource.  *)
(* data and forecast are the frames Resource.get_data returns.             *)

\* power_metrics with the forecast left in MW (hour factor forgotten)
power_metrics_forecast_in_mw(m, pd, pfd, res) ==
    LET power_hour_factor == resolution_to_hour_factor(res)
        realised_power_in_mwh == Scale(ToFloats(pd), power_hour_factor)
        m1 == IF ~empty(pd)
              THEN Write(m, [realised_power_in_mwh |-> nansum(realised_power_in_mwh)])
              ELSE m
        expected_power_in_mwh == ToFloats(pfd)
    IN  IF ~empty(pfd) /\ size(pfd) = size(pd)
        THEN Write(m1,
               [expected_power_in_mwh |-> nansum(expected_power_in_mwh),
                mae_power_in_mwh |->
                    mean_absolute_error(realised_power_in_mwh, expected_power_in_mwh),
                mape_power |->
                    mean_absolute_percentage_error(realised_power_in_mwh,
                                                   expected_power_in_mwh),
                wape_power |->
                    weighted_absolute_percentage_error(realised_power_in_mwh,
                                                       expected_power_in_mwh)])
        ELSE Write(m1, [expected_power_in_mwh |-> NaN, mae_power_in_mwh |-> NaN,
                        mape_power |-> NaN, wape_power |-> NaN])

\* power_metrics without the test that the realised series is not empty
power_metrics_realised_unguarded(m, pd, pfd, res) ==
    LET power_hour_factor == resolution_to_hour_factor(res)
        realised_power_in_mwh == Scale(ToFloats(pd), power_hour_factor)
    IN  Write(m, [realised_power_in_mwh |-> nansum(realised_power_in_mwh),
                  expected_power_in_mwh |-> NaN, mae_power_in_mwh |-> NaN,
                  mape_power |-> NaN, wape_power |-> NaN])

\* the metrics dict after get_power_data, given the frames as returned
power_metrics(m, pd, pfd, res) ==
    LET power_hour_factor == resolution_to_hour_factor(res)
        realised_power_in_mwh == Scale(ToFloats(pd), power_hour_factor)
        m1 == IF ~empty(pd)
              THEN Write(m, [realised_power_in_mwh |-> nansum(realised_power_in_mwh)])
              ELSE m
        expected_power_in_mwh == Scale(ToFloats(pfd), power_hour_factor)
    IN  IF ~empty(pfd) /\ size(pfd) = size(pd)
        THEN Write(m1,
               [expected_power_in_mwh |-> nansum(expected_power_in_mwh),
                mae_power_in_mwh |->
                    mean_absolute_error(realised_power_in_mwh, expected_power_in_mwh),
                mape_power |->
                    mean_absolute_percentage_error(realised_power_in_mwh,
                                                   expected_power_in_mwh),
                wape_power |->
                    weighted_absolute_percentage_error(realised_power_in_mwh,
                                                       expected_power_in_mwh)])
        ELSE Write(m1, [expected_power_in_mwh |-> NaN, mae_power_in_mwh |-> NaN,
                        mape_power |-> NaN, wape_power |-> NaN])

\* get_power_data filling a dict of its own instead of the one it was given
get_power_data_own_dict(showing_pure_consumption_data, m, data, forecast, res) ==
    LET pd == IF showing_pure_consumption_data THEN negated(data) ELSE data
        pfd == IF showing_pure_consumption_data THEN negated(forecast) ELSE forecast
    IN  [power_data |-> pd, power_forecast_data |-> pfd, metrics |-> m]

get_power_data(showing_pure_consumption_data, m, data, forecast, res) ==
    LET pd == IF showing_pure_consumption_data THEN negated(data) ELSE data
        pfd == IF showing_pure_consumption_data THEN negated(forecast) ELSE forecast
    IN  [power_data |-> pd, power_forecast_data |-> pfd,
         metrics |-> power_metrics(m, pd, pfd, res)]

-----------------------------------------------------------------------------
(* get_prices_data: realised and forecast prices of the market.            *)
(* data and forecast are the frames Price.collect returns.                 *)

prices_metrics(m, data, forecast) ==
    LET y == ToFloats(data)
        yhat == ToFloats(forecast)
        m1 == Write(m, [realised_unit_price |-> series_mean(y)])
    IN  IF ~empty(forecast) /\ size(forecast) = size(data)
        THEN Write(m1,
               [expected_unit_price |-> series_mean(yhat),
                mae_unit_price |-> mean_absolute_error(y, yhat),
                mape_unit_price |-> mean_absolute_percentage_error(y, yhat),
                wape_unit_price |-> weighted_absolute_percentage_error(y, yhat)])
        ELSE Write(m1, [expected_unit_price |-> NaN, mae_unit_price |-> NaN,
                        mape_unit_price |-> NaN, wape_unit_price |-> NaN])

\* get_prices_data filling a dict of its own instead of the one it was given
get_prices_data_own_dict(m, data, forecast) ==
    [prices_data |-> data, prices_forecast_data |-> forecast,
     metrics |-> prices_metrics(EmptyMetrics, data, forecast)]

get_prices_data(m, data, forecast) ==
    [prices_data |-> data, prices_forecast_data |-> forecast,
     metrics |-> prices_metrics(m, data, forecast)]

-----------------------------------------------------------------------------
(* get_weather_data: realised and forecast weather of the closest sensor.  *)
(* closest_sensor is FALSE when there is no sensor type or no sensor.      *)

weather_metrics(m, data, forecast) ==
    LET y == ToFloats(data)
        yhat == ToFloats(forecast)
        m1 == Write(m, [realised_weather |-> series_mean(y)])
    IN  IF ~empty(forecast) /\ size(forecast) = size(data)
        THEN Write(m1,
               [expected_weather |-> series_mean(yhat),
                mae_weather |-> mean_absolute_error(y, yhat),
                mape_weather |-> mean_absolute_percentage_error(y, yhat),
                wape_weather |-> weighted_absolute_percentage_error(y, yhat)])
        ELSE Write(m1, [expected_weather |-> NaN, mae_weather |-> NaN,
                        mape_weather |-> NaN, wape_weather |-> NaN])

get_weather_data(m, closest_sensor, data, forecast) ==
    IF ~closest_sensor
    THEN [weather_data |-> <<>>, weather_forecast_data |-> <<>>,
          closest_sensor |-> FALSE, metrics |-> m]
    ELSE [weather_data |-> data, weather_forecast_data |-> forecast,
          closest_sensor |-> TRUE, metrics |-> weather_metrics(m, data, forecast)]

-----------------------------------------------------------------------------
(* get_revenues_costs_data: revenues/costs derived from power and prices.  *)
(* The result names the exception when the call raises; the metrics dict   *)
(* is mutated in place, so writes made before the raise stay.              *)

\* a column over the index of power_data with every cell NaN
NaNColumn(index_of) == [i \in 1..Len(index_of) |-> NaN]

NaNForecasts(index_of) ==
    [i \in 1..Len(index_of) |-> [yhat |-> NaN, yhat_upper |-> NaN, yhat_lower |-> NaN]]

\* a * f * b * g per index entry, reindexed to the index of a: NaN where b has no entry
Product(a, f, b, g) ==
    [i \in 1..Len(a) |->
        IF i <= Len(b) THEN mul(mul(mul(I(a[i]), f), I(b[i])), g) ELSE NaN]

\* rev_cost_data.y
realised_rev_cost(pd, prd, power_hour_factor, unit_factor) ==
    IF empty(pd) \/ empty(prd)
    THEN NaNColumn(pd)
    ELSE Product(pd, power_hour_factor, prd, unit_factor)

\* realised_revenues_costs without the guard on empty inputs
realised_revenues_costs_unguarded(pd, prd, y) == nansum(y)

\* metrics["realised_revenues_costs"]
realised_revenues_costs(pd, prd, y) ==
    IF empty(pd) \/ empty(prd) THEN NaN ELSE nansum(y)

\* the condition under which no forecast is computed
no_forecast(pd, prd, pfd, prfd) ==
    \/ empty(pd) \/ empty(prd) \/ empty(pfd) \/ empty(prfd)
    \/ ~(size(pd) = size(pfd) /\ size(pfd) = size(prd) /\ size(prd) = size(prfd))

\* wape_factor_rev_costs as the sum of the two fractions, not their average
wape_factor_rev_costs_sum(m) ==
    add(div(m["wape_power"], Hundred), div(m["wape_unit_price"], Hundred))

\* factor for the confidence interval
wape_factor_rev_costs(m) ==
    div(add(div(m["wape_power"], Hundred), div(m["wape_unit_price"], Hundred)), I(2))

\* rev_cost_forecasts: yhat with its band
forecast_band(yhat, wape_factor) ==
    LET wape_span_rev_costs == Scale(yhat, wape_factor)
    IN  [i \in 1..Len(yhat) |->
            [yhat |-> yhat[i],
             yhat_upper |-> add(yhat[i], wape_span_rev_costs[i]),
             yhat_lower |-> sub(yhat[i], wape_span_rev_costs[i])]]

get_revenues_costs_data(pd, prd, pfd, prfd, m, unit_factor, res) ==
    LET power_hour_factor == resolution_to_hour_factor(res)
        y == realised_rev_cost(pd, prd, power_hour_factor, unit_factor)
        m1 == Write(m, [realised_revenues_costs |-> realised_revenues_costs(pd, prd, y)])
    IN  IF no_forecast(pd, prd, pfd, prfd)
        THEN [raised |-> "none", rev_cost_data |-> y,
              rev_cost_forecasts |-> NaNForecasts(pd),
              metrics |-> Write(m1, [expected_revenues_costs |-> NaN,
                                     mae_revenues_costs |-> NaN,
                                     mape_revenues_costs |-> NaN])]
        ELSE IF m1["wape_power"] = Absent \/ m1["wape_unit_price"] = Absent
        THEN [raised |-> "KeyError", rev_cost_data |-> y,
              rev_cost_forecasts |-> NaNForecasts(pd), metrics |-> m1]
        ELSE
        LET yhat == Product(pfd, power_hour_factor, prfd, unit_factor)
        IN  [raised |-> "none", rev_cost_data |-> y,
             rev_cost_forecasts |-> forecast_band(yhat, wape_factor_rev_costs(m1)),
             metrics |-> Write(m1,
                [expected_revenues_costs |-> nansum(yhat),
                 mae_revenues_costs |-> mean_absolute_error(y, yhat),
                 mape_revenues_costs |-> mean_absolute_percentage_error(y, yhat),
                 wape_revenues_costs |-> weighted_absolute_percentage_error(y, yhat)])]

-----------------------------------------------------------------------------
(* Inputs of the analytics calls *)

\* all series of at most MaxLen values from V
Series(V) == UNION {[1..n -> V] : n \in 0..MaxLen}

\* stored power values (MW), realised and forecast
PowerValues == {2}

PowerForecastValues == {3}

\* stored prices (EUR/MWh), realised and forecast
PriceValues == {5}

PriceForecastValues == {4}

\* stored weather values, realised and forecast
WeatherValues == {3}

WeatherForecastValues == {1}

\* session resolutions, in minutes
Resolutions == {15, 60}

\* unit factors the caller passes (1/1000: kWh quantities, EUR/MWh prices)
UnitFactors == {I(1), Num(1, 1000)}

NoCall == [fn |-> "none", raised |-> "none", unit_factor |-> Zero, closest_sensor |-> FALSE,
           lacking |-> {}]

\* the parts of the state the analytics pipeline does not touch
NoTimedValues == timed_values = {} /\ collected = [fn |-> "none"]

NoConversion == conversion = [fn |-> "none"]

NoDataSources == data_sources = {} /\ ds_call = [fn |-> "none"]

NoJobs == forecasting = <<>>

NoTaskRuns == task_runs = {} /\ now = 1 /\ task_call = [fn |-> "none"]

NoGrouping == grouping = [fn |-> "none"]

NoRequests == requests = <<>>

\* the parts of the state the API endpoints and helpers use
NoApi == NoJobs /\ NoTaskRuns /\ NoGrouping /\ NoRequests

\* one dashboard request: a new metrics dict, no frames fetched yet
NewRequest ==
    /\ resolution \in Resolutions
    /\ metrics = EmptyMetrics
    /\ power_data = <<>>
    /\ power_forecast_data = <<>>
    /\ prices_data = <<>>
    /\ prices_forecast_data = <<>>
    /\ weather_data = <<>>
    /\ weather_forecast_data = <<>>
    /\ rev_cost_data = <<>>
    /\ rev_cost_forecasts = <<>>
    /\ called = {}
    /\ last = NoCall

\* no dashboard request is made
NoRequest == NewRequest /\ resolution = 15

Init == NewRequest /\ NoTimedValues /\ NoConversion /\ NoDataSources /\ NoApi

\* a call of get_power_data with stored values from R (realised) and F (forecast)
GetPowerDataFrom(R, F) ==
    /\ "get_power_data" \notin called
    /\ \E showing \in BOOLEAN, data \in Series(R), forecast \in Series(F) :
        LET r == get_power_data(showing, metrics, data, forecast, resolution)
        IN  /\ power_data' = r.power_data
            /\ power_forecast_data' = r.power_forecast_data
            /\ metrics' = r.metrics
    /\ called' = called \cup {"get_power_data"}
    /\ last' = [NoCall EXCEPT !.fn = "get_power_data"]
    /\ UNCHANGED <<resolution, prices_data, prices_forecast_data, weather_data,
                   weather_forecast_data, rev_cost_data, rev_cost_forecasts>>
    /\ UNCHANGED <<collect_vars, convert_vars, ds_vars, api_vars>>

CallGetPowerData == GetPowerDataFrom(PowerValues, PowerForecastValues)

CallGetPricesData ==
    /\ "get_prices_data" \notin called
    /\ \E data \in Series(PriceValues), forecast \in Series(PriceForecastValues) :
        LET r == get_prices_data(metrics, data, forecast)
        IN  /\ prices_data' = r.prices_data
            /\ prices_forecast_data' = r.prices_forecast_data
            /\ metrics' = r.metrics
    /\ called' = called \cup {"get_prices_data"}
    /\ last' = [NoCall EXCEPT !.fn = "get_prices_data"]
    /\ UNCHANGED <<resolution, power_data, power_forecast_data, weather_data,
                   weather_forecast_data, rev_cost_data, rev_cost_forecasts>>
    /\ UNCHANGED <<collect_vars, convert_vars, ds_vars, api_vars>>

CallGetWeatherData ==
    /\ "get_weather_data" \notin called
    /\ \E sensor \in BOOLEAN, data \in Series(WeatherValues),
          forecast \in Series(WeatherForecastValues) :
        LET r == get_weather_data(metrics, sensor, data, forecast)
        IN  /\ weather_data' = r.weather_data
            /\ weather_forecast_data' = r.weather_forecast_data
            /\ metrics' = r.metrics
            /\ last' = [NoCall EXCEPT !.fn = "get_weather_data",
                                      !.closest_sensor = r.closest_sensor]
    /\ called' = called \cup {"get_weather_data"}
    /\ UNCHANGED <<resolution, power_data, power_forecast_data, prices_data,
                   prices_forecast_data, rev_cost_data, rev_cost_forecasts>>
    /\ UNCHANGED <<collect_vars, convert_vars, ds_vars, api_vars>>

CallGetRevenuesCostsData ==
    /\ "get_revenues_costs_data" \notin called
    /\ \E unit_factor \in UnitFactors :
        LET r == get_revenues_costs_data(power_data, prices_data, power_forecast_data,
                                         prices_forecast_data, metrics, unit_factor,
                                         resolution)
        IN  /\ metrics' = r.metrics
            /\ IF r.raised = "none"
               THEN /\ rev_cost_data' = r.rev_cost_data
                    /\ rev_cost_forecasts' = r.rev_cost_forecasts
               ELSE UNCHANGED <<rev_cost_data, rev_cost_forecasts>>
            /\ last' = [NoCall EXCEPT !.fn = "get_revenues_costs_data",
                                      !.raised = r.raised,
                                      !.unit_factor = unit_factor]
    /\ called' = called \cup {"get_revenues_costs_data"}
    /\ UNCHANGED <<resolution, power_data, power_forecast_data, prices_data,
                   prices_forecast_data, weather_data, weather_forecast_data>>
    /\ UNCHANGED <<collect_vars, convert_vars, ds_vars, api_vars>>

\* the dashboard request: the four analytics functions, each once, in any order
Next ==
    \/ CallGetPowerData
    \/ CallGetPricesData
    \/ CallGetWeatherData
    \/ CallGetRevenuesCostsData

Spec == Init /\ [][Next]_vars

-----------------------------------------------------------------------------
(* get_revenues_costs_data on its own: any four frames, any metrics dict    *)

\* power and price values a caller may pass (negative power: consumption)
RevPowerValues == {2}

RevPowerForecastValues == {-3, 3}

RevPriceValues == {5}

RevPriceForecastValues == {4}

\* values the dict may hold under wape_power / wape_unit_price before the call
PriorWapePower == {Absent, NaN, I(0), I(50), Inf(1)}

PriorWapeUnitPrice == {Absent, I(20)}

\* values the dict may hold under the *_revenues_costs keys before the call
PriorRevenueMetrics == {Absent, I(7)}

InitRev ==
    /\ resolution \in Resolutions
    /\ \E wp \in PriorWapePower, wu \in PriorWapeUnitPrice, old \in PriorRevenueMetrics :
        metrics = [k \in MetricKeys |->
                     IF k = "wape_power" THEN wp
                     ELSE IF k = "wape_unit_price" THEN wu
                     ELSE IF k \in RevenueKeys THEN old
                     ELSE Absent]
    /\ power_data \in Series(RevPowerValues)
    /\ power_forecast_data \in Series(RevPowerForecastValues)
    /\ prices_data \in Series(RevPriceValues)
    /\ prices_forecast_data \in Series(RevPriceForecastValues)
    /\ weather_data = <<>>
    /\ weather_forecast_data = <<>>
    /\ rev_cost_data = <<>>
    /\ rev_cost_forecasts = <<>>
    /\ called = {}
    /\ last = NoCall
    /\ NoTimedValues /\ NoConversion /\ NoDataSources /\ NoApi

NextRev == CallGetRevenuesCostsData

SpecRev == InitRev /\ [][NextRev]_vars

-----------------------------------------------------------------------------
(* The pipeline of power, prices and revenues: get_revenues_costs_data is   *)
(* called with the frames the caller holds, on the metrics dict of the      *)
(* earlier calls or on a dict that lacks keys of it.                        *)

\* the keys get_revenues_costs_data reads
WapeKeys == {"wape_power", "wape_unit_price"}

\* the dict without the given keys
Lacking(m, keys) == [k \in MetricKeys |-> IF k \in keys THEN Absent ELSE m[k]]

CallGetRevenuesCostsDataOnLackingDict ==
    /\ "get_revenues_costs_data" \notin called
    /\ \E unit_factor \in UnitFactors, keys \in (SUBSET WapeKeys) \ {{}} :
        LET r == get_revenues_costs_data(power_data, prices_data, power_forecast_data,
                                         prices_forecast_data, Lacking(metrics, keys),
                                         unit_factor, resolution)
        IN  /\ metrics' = r.metrics
            /\ IF r.raised = "none"
               THEN /\ rev_cost_data' = r.rev_cost_data
                    /\ rev_cost_forecasts' = r.rev_cost_forecasts
               ELSE UNCHANGED <<rev_cost_data, rev_cost_forecasts>>
            /\ last' = [NoCall EXCEPT !.fn = "get_revenues_costs_data",
                                      !.raised = r.raised,
                                      !.unit_factor = unit_factor,
                                      !.lacking = keys]
    /\ called' = called \cup {"get_revenues_costs_data"}
    /\ UNCHANGED <<resolution, power_data, power_forecast_data, prices_data,
                   prices_forecast_data, weather_data, weather_forecast_data>>
    /\ UNCHANGED <<collect_vars, convert_vars, ds_vars, api_vars>>

NextPipeline ==
    \/ CallGetPowerData
    \/ CallGetPricesData
    \/ CallGetRevenuesCostsData
    \/ CallGetRevenuesCostsDataOnLackingDict

SpecPipeline == Init /\ [][NextPipeline]_vars

-----------------------------------------------------------------------------
(* get_power_data on its own, on measured series                            *)

MeasuredPowerValues == {0, 10, 12, 18, 20}

FetchPower == GetPowerDataFrom(MeasuredPowerValues, MeasuredPowerValues)

NextPower == FetchPower

SpecPower == Init /\ [][NextPower]_vars

-----------------------------------------------------------------------------
(* get_power_data on a metrics dict that an earlier request has filled      *)

\* values the dict may hold under the power keys before the call
PriorPowerMetrics == {Absent, I(7)}

InitPowerOnDict ==
    /\ resolution \in Resolutions
    /\ \E old \in PriorPowerMetrics :
        metrics = [k \in MetricKeys |-> IF k \in PowerKeys THEN old ELSE Absent]
    /\ power_data = <<>>
    /\ power_forecast_data = <<>>
    /\ prices_data = <<>>
    /\ prices_forecast_data = <<>>
    /\ weather_data = <<>>
    /\ weather_forecast_data = <<>>
    /\ rev_cost_data = <<>>
    /\ rev_cost_forecasts = <<>>
    /\ called = {}
    /\ last = NoCall
    /\ NoTimedValues /\ NoConversion /\ NoDataSources /\ NoApi

NextPowerOnDict == FetchPower

SpecPowerOnDict == InitPowerOnDict /\ [][NextPowerOnDict]_vars

-----------------------------------------------------------------------------
(* TimedValue.make_query and TimedValue.collect.  A row of the value table  *)
(* is [asset, datetime, horizon, source, value]; event times and horizons   *)
(* are counted in time steps of the asset's resolution.                     *)

\* optional arguments: None, or a value
None == [some |-> FALSE, v |-> {}]

Some(x) == [some |-> TRUE, v |-> {x}]

\* the value of an optional argument that is given
The(o) == CHOOSE x \in o.v : TRUE

\* bvp.data.queries.utils.create_beliefs_query: the rows of the asset with event
\* time in [start, end); no such asset gives an empty result
create_beliefs_query(table, asset_name, start, end) ==
    {r \in table : r.asset = asset_name /\ start <= r.datetime /\ r.datetime < end}

\* bvp.data.queries.utils.add_horizon_filter: rolling horizons are the rows' own,
\* fixed ones are counted from the end of the query window; a None bound is open
add_horizon_filter(query, end, horizon_window, rolling, belief_time) ==
    LET short == horizon_window[1]
        long == horizon_window[2]
        shift(r) == IF rolling THEN 0 ELSE end - (r.datetime + 1)
    IN  {r \in query :
            /\ short.some => r.horizon >= The(short) - shift(r)
            /\ long.some => r.horizon <= The(long) - shift(r)
            /\ belief_time.some => The(belief_time) >= r.datetime + r.horizon}

\* make_query without the horizon filter
make_query_unfiltered(table, asset_name, query_window, horizon_window, rolling, belief_time) ==
    create_beliefs_query(table, asset_name, query_window[1], query_window[2])

make_query(table, asset_name, query_window, horizon_window, rolling, belief_time) ==
    LET start == query_window[1]
        end == query_window[2]
        query == create_beliefs_query(table, asset_name, start, end)
    IN  add_horizon_filter(query, end, horizon_window, rolling, belief_time)

RECURSIVE SumValues(_)
SumValues(rs) ==
    IF rs = {} THEN 0
    ELSE LET r == CHOOSE x \in rs : TRUE IN r.value + SumValues(rs \ {r})

\* rows of the given sources: None accepts every source, the id -1 matches none
OfSources(rs, source_ids) == {r \in rs : source_ids.some => r.source \in The(source_ids)}

\* bvp.data.services.time_series.collect_time_series_data: per asset the rows of
\* the preferred sources, or of the fallback sources if there are none; summed
\* per event time over the assets if sum_multiple
collect_time_series_data(table, generic_asset_names, query_window, horizon_window, rolling, belief_time, preferred_user_source_ids, fallback_user_source_ids, sum_multiple) ==
    LET selected ==
            [a \in generic_asset_names |->
                LET q == make_query(table, a, query_window, horizon_window, rolling,
                                    belief_time)
                    preferred == OfSources(q, preferred_user_source_ids)
                IN  IF preferred # {} THEN preferred
                    ELSE OfSources(q, fallback_user_source_ids)]
        all == UNION {selected[a] : a \in generic_asset_names}
    IN  [rows |-> selected,
         sum |-> IF sum_multiple
                 THEN [t \in {r.datetime : r \in all} |->
                          SumValues({r \in all : r.datetime = t})]
                 ELSE << >>]

\* collect handing the fallback sources over as the preferred ones and vice versa
collect_sources_swapped(table, generic_asset_names, query_window, horizon_window, rolling, belief_time, preferred_user_source_ids, fallback_user_source_ids, sum_multiple) ==
    collect_time_series_data(table, generic_asset_names, query_window, horizon_window,
                             rolling, belief_time, fallback_user_source_ids,
                             preferred_user_source_ids, sum_multiple)

\* TimedValue.collect
collect(table, generic_asset_names, query_window, horizon_window, rolling, belief_time, preferred_user_source_ids, fallback_user_source_ids, sum_multiple) ==
    collect_time_series_data(table, generic_asset_names, query_window, horizon_window,
                             rolling, belief_time, preferred_user_source_ids,
                             fallback_user_source_ids, sum_multiple)

\* the horizon windows of the analytics functions: realised and forecast series
realised_horizon_window == <<None, Some(0)>>

forecast_horizon_window(horizon) == <<Some(horizon), None>>

\* most rows stored in the value table
MaxRows == 2

AssetNames == {"a1", "a2"}

EventTimes == {0, 1}

Horizons == {0, 1, 2}

\* ids of the data sources that stored rows
SourceIds == {3, 7}

\* session["forecast_horizon"], in time steps
ForecastHorizons == {2}

StoredRows ==
    [asset : AssetNames, datetime : EventTimes, horizon : Horizons,
     source : SourceIds, value : {1}]

QueryWindows == {<<0, 1>>, <<0, 2>>}

HorizonWindows ==
    {realised_horizon_window, <<None, None>>, <<Some(1), Some(1)>>}
        \cup {forecast_horizon_window(h) : h \in ForecastHorizons}

PreferredSourceIds == {None, Some({3})}

FallbackSourceIds == {Some({-1}), Some({7})}

InitCollect ==
    /\ timed_values \in {t \in SUBSET StoredRows : Cardinality(t) <= MaxRows}
    /\ collected = [fn |-> "none"]
    /\ NoRequest /\ NoConversion /\ NoDataSources /\ NoApi

CallMakeQuery ==
    /\ collected.fn = "none"
    /\ \E a \in AssetNames, qw \in QueryWindows, hw \in HorizonWindows,
          rolling \in BOOLEAN, bt \in {None, Some(1)} :
        collected' = [fn |-> "make_query", asset_names |-> {a}, query_window |-> qw,
                      horizon_window |-> hw, rolling |-> rolling, belief_time |-> bt,
                      preferred |-> None, fallback |-> None, sum_multiple |-> FALSE,
                      query |-> make_query(timed_values, a, qw, hw, rolling, bt),
                      result |-> [rows |-> << >>, sum |-> << >>]]
    /\ UNCHANGED <<timed_values, analytics_vars, convert_vars, ds_vars, api_vars>>

CallCollect ==
    /\ collected.fn = "none"
    /\ \E names \in (SUBSET AssetNames) \ {{}}, qw \in QueryWindows,
          hw \in {realised_horizon_window, <<None, None>>},
          preferred \in PreferredSourceIds, fallback \in FallbackSourceIds,
          sum_multiple \in BOOLEAN :
        collected' = [fn |-> "collect", asset_names |-> names, query_window |-> qw,
                      horizon_window |-> hw, rolling |-> TRUE, belief_time |-> None,
                      preferred |-> preferred, fallback |-> fallback,
                      sum_multiple |-> sum_multiple,
                      query |-> {},
                      result |-> collect(timed_values, names, qw, hw, TRUE, None,
                                         preferred, fallback, sum_multiple)]
    /\ UNCHANGED <<timed_values, analytics_vars, convert_vars, ds_vars, api_vars>>

NextCollect ==
    \/ CallMakeQuery
    \/ CallCollect

SpecCollect == InitCollect /\ [][NextCollect]_vars

-----------------------------------------------------------------------------
(* convert_to_15min.  value_groups is a flat list of values or a list of    *)
(* groups (lists) of values; from_resolution is in minutes.                 *)

\* most groups in one message
MaxGroups == 2

\* numpy.ndarray.repeat: every element n times, in order
repeat(values, n) == [i \in 1..(n * Len(values)) |-> values[((i - 1) \div n) + 1]]

\* value_groups as posted: flat tells which of the two shapes the list has
ValueGroups(flat, values, groups) == [flat |-> flat, values |-> values, groups |-> groups]

\* len(value_groups)
NumItems(value_groups) ==
    IF value_groups.flat THEN Len(value_groups.values) ELSE Len(value_groups.groups)

convert_to_15min(value_groups, from_resolution) ==
    IF from_resolution % 15 = 0
    THEN LET n == from_resolution \div 15
         IN  IF NumItems(value_groups) = 0
             THEN [raised |-> "IndexError", value_groups |-> value_groups]
             ELSE IF ~value_groups.flat
             THEN [raised |-> "none",
                   value_groups |->
                       ValueGroups(FALSE, <<>>,
                           [g \in 1..Len(value_groups.groups) |->
                               repeat(value_groups.groups[g], n)])]
             ELSE [raised |-> "none",
                   value_groups |-> ValueGroups(TRUE, repeat(value_groups.values, n), <<>>)]
    ELSE [raised |-> "none", value_groups |-> value_groups]

PostedValues == {1, 2}

\* resolutions of posted data, in minutes
PostedResolutions == {15, 20, 30, 60}

PostedValueGroups ==
    {ValueGroups(TRUE, v, <<>>) : v \in Series(PostedValues)}
        \cup {ValueGroups(FALSE, <<>>, g) :
                g \in UNION {[1..n -> Series(PostedValues)] : n \in 0..MaxGroups}}

InitConvert ==
    /\ \E vg \in PostedValueGroups, res \in PostedResolutions :
        conversion = [fn |-> "none", value_groups |-> vg, from_resolution |-> res,
                      raised |-> "none", result |-> vg]
    /\ NoRequest /\ NoTimedValues /\ NoDataSources /\ NoApi

CallConvertTo15Min ==
    /\ conversion.fn = "none"
    /\ LET r == convert_to_15min(conversion.value_groups, conversion.from_resolution)
       IN  conversion' = [conversion EXCEPT !.fn = "convert_to_15min",
                                            !.raised = r.raised,
                                            !.result = r.value_groups]
    /\ UNCHANGED <<analytics_vars, collect_vars, ds_vars, api_vars>>

NextConvert == CallConvertTo15Min

SpecConvert == InitConvert /\ [][NextConvert]_vars

-----------------------------------------------------------------------------
(* get_or_create_user_data_source.  A DataSource row is [id, user]; user 0  *)
(* marks a data source that belongs to no user.                             *)

\* users of the platform
NumUsers == 3

Users == 1..NumUsers

RECURSIVE MaxId(_)
MaxId(table) ==
    IF table = {} THEN 0
    ELSE LET r == CHOOSE x \in table : TRUE
             m == MaxId(table \ {r})
         IN  IF r.id > m THEN r.id ELSE m

\* DataSource.query.filter(DataSource.user == user)
OfUser(table, user) == {r \in table : r.user = user}

\* DataSource(user=user) after add and flush: the next id of the table
NewDataSource(table, user) == [id |-> MaxId(table) + 1, user |-> user]

\* get_or_create_user_data_source without the lookup
create_user_data_source(table, user) ==
    [raised |-> "none", data_source |-> NewDataSource(table, user), created |-> TRUE,
     table |-> table \cup {NewDataSource(table, user)}]

get_or_create_user_data_source(table, user) ==
    LET found == OfUser(table, user)
    IN  IF Cardinality(found) > 1
        THEN [raised |-> "MultipleResultsFound", data_source |-> NewDataSource({}, 0),
              created |-> FALSE, table |-> table]
        ELSE IF found = {}
        THEN [raised |-> "none", data_source |-> NewDataSource(table, user),
              created |-> TRUE, table |-> table \cup {NewDataSource(table, user)}]
        ELSE [raised |-> "none", data_source |-> CHOOSE r \in found : TRUE,
              created |-> FALSE, table |-> table]

RECURSIVE Registered(_, _)
\* a table in which the given users, and no others, are registered as data sources
Registered(table, users) ==
    IF users = {} THEN table
    ELSE LET u == CHOOSE x \in users : TRUE
         IN  Registered(table \cup {NewDataSource(table, u)}, users \ {u})

NoDataSourceCall == [fn |-> "none", user |-> 0, raised |-> "none", status |-> 0,
                     created |-> FALSE, data_source |-> NewDataSource({}, 0),
                     market |-> 0, start |-> 0]

InitDataSource ==
    /\ \E other \in {{}, {NewDataSource({}, 0)}}, users \in SUBSET Users :
        data_sources = Registered(other, users)
    /\ ds_call = NoDataSourceCall
    /\ NoRequest /\ NoTimedValues /\ NoConversion /\ NoApi

CallGetOrCreateUserDataSource ==
    /\ \E user \in Users :
        LET r == get_or_create_user_data_source(data_sources, user)
        IN  /\ data_sources' = r.table
            /\ ds_call' = [NoDataSourceCall EXCEPT
                               !.fn = "get_or_create_user_data_source", !.user = user,
                               !.raised = r.raised, !.created = r.created,
                               !.data_source = r.data_source]
    /\ UNCHANGED <<analytics_vars, collect_vars, convert_vars, api_vars>>

\* most jobs waiting on the forecasting queue
MaxJobs == 4

\* ids of the markets prices are posted for
Markets == {1, 2}

\* start of the posted prices, in hours
PostedStarts == {0, 6}

\* the horizons a price forecast is made for, in hours
price_forecast_horizons == <<24, 48>>

\* the kwargs of one forecasting job
forecasting_job(horizon, start, timed_value_type, asset_id) ==
    [horizon |-> horizon, start |-> start, timed_value_type |-> timed_value_type,
     asset_id |-> asset_id]

\* the jobs of a post that start their forecast at the posted start
price_forecasting_jobs_at_posted_start(start, market) ==
    [i \in 1..Len(price_forecast_horizons) |->
        forecasting_job(price_forecast_horizons[i], start, "Price", market)]

\* the jobs one price post puts on the queue: one per horizon
price_forecasting_jobs(start, market) ==
    [i \in 1..Len(price_forecast_horizons) |->
        forecasting_job(price_forecast_horizons[i], start + price_forecast_horizons[i],
                        "Price", market)]

\* post_price_data by a logged-in user, with a valid message: the values are
\* stored under the user's data source, registered on the way if missing, the
\* forecasting jobs are put on the queue and the response is 200
PostPriceData ==
    /\ Len(forecasting) + Len(price_forecast_horizons) <= MaxJobs
    /\ \E user \in Users, market \in Markets, start \in PostedStarts :
        LET r == get_or_create_user_data_source(data_sources, user)
        IN  /\ data_sources' = r.table
            /\ ds_call' = [NoDataSourceCall EXCEPT
                               !.fn = "post_price_data", !.user = user,
                               !.raised = r.raised,
                               !.status = IF r.raised = "none" THEN 200 ELSE 500,
                               !.created = r.created, !.data_source = r.data_source,
                               !.market = market, !.start = start]
            /\ forecasting' =
                   IF r.raised = "none"
                   THEN forecasting \o price_forecasting_jobs(start, market)
                   ELSE forecasting
    /\ UNCHANGED <<analytics_vars, collect_vars, convert_vars, task_vars,
                   message_vars, request_vars>>

\* a worker of the forecasting queue takes the job at its head
RunForecastingJob ==
    /\ forecasting # <<>>
    /\ forecasting' = Tail(forecasting)
    /\ UNCHANGED <<analytics_vars, collect_vars, convert_vars, ds_vars, task_vars,
                   message_vars, request_vars>>

NextDataSource ==
    \/ CallGetOrCreateUserDataSource
    \/ PostPriceData
    \/ RunForecastingJob

SpecDataSource == InitDataSource /\ [][NextDataSource]_vars

-----------------------------------------------------------------------------
(* get_or_create_user_data_source in concurrent ingestion requests.  Every   *)
(* request has a database session of its own: it sees the committed rows    *)
(* (read committed) and the rows it has flushed itself; data_sources is the *)
(* committed table.  The lookup and the insert are two statements, so the   *)
(* statements of different requests interleave.  The table has no           *)
(* constraint that the code shows: the code looks up before it inserts.     *)

\* ingestion requests in flight at the same time
NumRequests == 2

Requests == 1..NumRequests

\* the rows the other requests have flushed and not yet committed
Flushed == UNION {requests[r].pending : r \in Requests}

\* a request that has not yet called get_or_create_user_data_source
NewIngestionRequest(user) ==
    [user |-> user, pc |-> "start", found |-> {}, pending |-> {}, raised |-> "none"]

InitRequests ==
    /\ \E other \in {{}, {NewDataSource({}, 0)}}, users \in SUBSET Users :
        data_sources = Registered(other, users)
    /\ ds_call = NoDataSourceCall
    /\ requests \in [Requests -> {NewIngestionRequest(u) : u \in Users}]
    /\ NoRequest /\ NoTimedValues /\ NoConversion
    /\ NoJobs /\ NoTaskRuns /\ NoGrouping

\* DataSource.query.filter(DataSource.user == user).one_or_none()
RequestLookup(r) ==
    /\ requests[r].pc = "start"
    /\ LET found == OfUser(data_sources \cup requests[r].pending, requests[r].user)
       IN  requests' = [requests EXCEPT
                            ![r].found = found,
                            ![r].raised = IF Cardinality(found) > 1
                                          THEN "MultipleResultsFound" ELSE "none",
                            ![r].pc = IF Cardinality(found) > 1 THEN "failed"
                                      ELSE IF found = {} THEN "not found"
                                      ELSE "returned"]
    /\ UNCHANGED <<analytics_vars, collect_vars, convert_vars, ds_vars, queue_vars,
                   task_vars, message_vars>>

\* data_source = DataSource(user=user); db.session.add(data_source); db.session.flush()
RequestAddAndFlush(r) ==
    /\ requests[r].pc = "not found"
    /\ requests' = [requests EXCEPT
                        ![r].pending = {NewDataSource(data_sources \cup Flushed,
                                                      requests[r].user)},
                        ![r].pc = "returned"]
    /\ UNCHANGED <<analytics_vars, collect_vars, convert_vars, ds_vars, queue_vars,
                   task_vars, message_vars>>

\* the request ends: its session commits what it has flushed
RequestCommit(r) ==
    /\ requests[r].pc = "returned"
    /\ data_sources' = data_sources \cup requests[r].pending
    /\ requests' = [requests EXCEPT ![r].pending = {}, ![r].pc = "committed"]
    /\ UNCHANGED ds_call
    /\ UNCHANGED <<analytics_vars, collect_vars, convert_vars, queue_vars, task_vars,
                   message_vars>>

NextRequests ==
    \/ \E r \in Requests : RequestLookup(r)
    \/ \E r \in Requests : RequestAddAndFlush(r)
    \/ \E r \in Requests : RequestCommit(r)

SpecRequests == InitRequests /\ [][NextRequests]_vars

-----------------------------------------------------------------------------
(* The task run endpoints get_task_run and post_task_run.  A LatestTaskRun  *)
(* row is [name, status, datetime]; datetimes are whole hours since 1970.   *)

\* latest time of the clock
MaxNow == 3

\* datetime(1970, 1, 1)
Epoch == 0

\* str.upper on the task names of the model
upper(task_name) ==
    CASE task_name = "a" -> "A"
      [] task_name = "b" -> "B"
      [] OTHER -> task_name

\* current_app.config: one task has a monitoring frequency of its own
app_config == [k \in {<<"MONITOR_FREQUENCY_%s", "A">>} |-> 5]

\* current_app.config.get(key, default)
config_get(key, default) == IF key \in DOMAIN app_config THEN app_config[key] ELSE default

\* a response body: the keys it has and their values
Body(keys, status, text, arg, lastrun, frequency) ==
    [keys |-> keys, status |-> status, reason |-> [text |-> text, arg |-> arg],
     lastrun |-> lastrun, frequency |-> frequency]

NoBody == Body({}, "", "", "", Epoch, 0)

\* LatestTaskRun.query.filter(LatestTaskRun.name == task_name)
Named(table, task_name) == {r \in table : r.name = task_name}

\* get_task_run that never looks the run up
get_task_run_without_lookup(table, name) ==
    [raised |-> "none", code |-> 400,
     body |-> Body({"status", "reason", "lastrun", "frequency"}, "ERROR",
                   "Task %s has no last run time.", IF name.some THEN The(name) ELSE "",
                   Epoch, 10)]

get_task_run(table, name) ==
    IF ~name.some
    THEN [raised |-> "AttributeError", code |-> 0, body |-> NoBody]
    ELSE LET task_name == The(name)
             frequency == config_get(<<"MONITOR_FREQUENCY_%s", upper(task_name)>>, 10)
             found == Named(table, task_name)
         IN  IF task_name = ""
             THEN [raised |-> "none", code |-> 400,
                   body |-> Body({"status", "reason", "lastrun", "frequency"}, "ERROR",
                                 "No task name given.", "", Epoch, frequency)]
             ELSE IF found = {}
             THEN [raised |-> "none", code |-> 400,
                   body |-> Body({"status", "reason", "lastrun", "frequency"}, "ERROR",
                                 "Task %s has no last run time.", task_name, Epoch,
                                 frequency)]
             ELSE LET last_run == CHOOSE r \in found : TRUE
                  IN  [raised |-> "none", code |-> 200,
                       body |-> Body({"lastrun", "status", "frequency"},
                                     IF last_run.status THEN "OK" ELSE "ERROR",
                                     "", "", last_run.datetime, frequency)]

\* a failure of the database: the step of the try block it strikes and its message
NoFailure == [at |-> "none", message |-> ""]

DatabaseFailures ==
    {[at |-> "lookup", message |-> "connection lost"],
     [at |-> "add", message |-> "session closed"],
     [at |-> "commit", message |-> "commit failed"]}

\* the form of a post: each field is given or not
Form(name, status, datetime) == [name |-> name, status |-> status, datetime |-> datetime]

\* request.form.get(key, default)
form_get(field, default) == IF field.some THEN The(field) ELSE default

\* the row post_task_run stores for a form posted at the given time
posted_run(form, utcnow) ==
    [name |-> form_get(form.name, ""),
     status |-> (form_get(form.status, "True") = "True"),
     datetime |-> form_get(form.datetime, utcnow)]

\* post_task_run that adds a new row whether or not the task has one
post_task_run_always_adds(table, form, utcnow, failure) ==
    IF form_get(form.name, "") = ""
    THEN [raised |-> "none", code |-> 400, table |-> table,
          body |-> Body({"status", "reason"}, "ERROR", "No task name given.", "",
                        Epoch, 0)]
    ELSE [raised |-> "none", code |-> 200, table |-> table \cup {posted_run(form, utcnow)},
          body |-> Body({"status"}, "OK", "", "", Epoch, 0)]

\* post_task_run without the test of the task name
post_task_run_without_name_test(table, form, utcnow, failure) ==
    [raised |-> "none", code |-> 200, table |-> table \cup {posted_run(form, utcnow)},
     body |-> Body({"status"}, "OK", "", "", Epoch, 0)]

\* post_task_run without the try block: a failure of the database propagates
post_task_run_without_try(table, form, utcnow, failure) ==
    IF form_get(form.name, "") = ""
    THEN [raised |-> "none", code |-> 400, table |-> table,
          body |-> Body({"status", "reason"}, "ERROR", "No task name given.", "",
                        Epoch, 0)]
    ELSE IF failure.at # "none"
    THEN [raised |-> "Exception", code |-> 0, table |-> table, body |-> NoBody]
    ELSE [raised |-> "none", code |-> 200,
          table |-> (table \ Named(table, form_get(form.name, "")))
                        \cup {posted_run(form, utcnow)},
          body |-> Body({"status"}, "OK", "", "", Epoch, 0)]

post_task_run(table, form, utcnow, failure) ==
    LET task_name == form_get(form.name, "")
        found == Named(table, task_name)
        error(message) ==
            [raised |-> "none", code |-> 500, table |-> table,
             body |-> Body({"status", "reason"}, "ERROR", message, "", Epoch, 0)]
    IN  IF task_name = ""
        THEN [raised |-> "none", code |-> 400, table |-> table,
              body |-> Body({"status", "reason"}, "ERROR", "No task name given.", "",
                            Epoch, 0)]
        ELSE IF failure.at = "lookup" THEN error(failure.message)
        ELSE IF Cardinality(found) > 1
        THEN error("Multiple rows were found for one_or_none()")
        ELSE IF found = {} /\ failure.at = "add" THEN error(failure.message)
        ELSE IF failure.at = "commit" THEN error(failure.message)
        ELSE [raised |-> "none", code |-> 200,
              table |-> (table \ found) \cup {posted_run(form, utcnow)},
              body |-> Body({"status"}, "OK", "", "", Epoch, 0)]

\* what a client may send
TaskNames == {"a", "b"}

NameFields == {None, Some("")} \cup {Some(n) : n \in TaskNames}

StatusFields == {None, Some("True"), Some("False"), Some("true")}

DatetimeFields == {None, Some(2)}

NoTaskCall == [fn |-> "none", name |-> None, status |-> None, datetime |-> None,
               failure |-> NoFailure, utcnow |-> Epoch, raised |-> "none", code |-> 0,
               body |-> NoBody]

InitTaskRuns ==
    /\ task_runs = {}
    /\ now = 1
    /\ task_call = NoTaskCall
    /\ NoRequest /\ NoTimedValues /\ NoConversion /\ NoDataSources
    /\ NoJobs /\ NoGrouping /\ NoRequests

CallGetTaskRun ==
    /\ \E name \in NameFields :
        LET r == get_task_run(task_runs, name)
        IN  task_call' = [NoTaskCall EXCEPT !.fn = "get_task_run", !.name = name,
                                            !.utcnow = now, !.raised = r.raised,
                                            !.code = r.code, !.body = r.body]
    /\ UNCHANGED <<task_runs, now>>
    /\ UNCHANGED <<analytics_vars, collect_vars, convert_vars, ds_vars, queue_vars,
                   message_vars, request_vars>>

CallPostTaskRun ==
    /\ \E name \in NameFields, status \in StatusFields, datetime \in DatetimeFields,
          failure \in {NoFailure} \cup DatabaseFailures :
        LET r == post_task_run(task_runs, Form(name, status, datetime), now, failure)
        IN  /\ task_runs' = r.table
            /\ task_call' = [NoTaskCall EXCEPT !.fn = "post_task_run", !.name = name,
                                                !.status = status, !.datetime = datetime,
                                                !.failure = failure, !.utcnow = now,
                                                !.raised = r.raised, !.code = r.code,
                                                !.body = r.body]
    /\ UNCHANGED now
    /\ UNCHANGED <<analytics_vars, collect_vars, convert_vars, ds_vars, queue_vars,
                   message_vars, request_vars>>

\* time passes between two requests
Tick ==
    /\ now < MaxNow
    /\ now' = now + 1
    /\ UNCHANGED <<task_runs, task_call>>
    /\ UNCHANGED <<analytics_vars, collect_vars, convert_vars, ds_vars, queue_vars,
                   message_vars, request_vars>>

NextTaskRuns ==
    \/ CallGetTaskRun
    \/ CallPostTaskRun
    \/ Tick

SpecTaskRuns == InitTaskRuns /\ [][NextTaskRuns]_vars

-----------------------------------------------------------------------------
(* unique_ever_seen and groups_to_dict.  A Python value that is either a    *)
(* bare element or a list is a record: atom tells which, v is the bare      *)
(* element, items the elements of the list (values of the same kind).       *)

\* most connection groups in one message
MaxMessageGroups == 3

Atom(x) == [atom |-> TRUE, v |-> x, items |-> <<>>]

List(items) == [atom |-> FALSE, v |-> 0, items |-> items]

\* isinstance(x, list)
isinstance_list(x) == ~x.atom

\* element in u
contains(u, element) == \E j \in 1..Len(u) : u[j] = element

\* u.index(element): the first position that holds it
index(u, element) == CHOOSE j \in 1..Len(u) : u[j] = element /\ \A k \in 1..(j - 1) : u[k] # element

\* len(zip(iterable, selector))
zip_len(iterable, selector) ==
    IF Len(iterable) < Len(selector) THEN Len(iterable) ELSE Len(selector)

RECURSIVE unique_loop(_, _, _, _, _)
\* the loop of unique_ever_seen from pair i on, with u and s as built so far
unique_loop(u, s, iterable, selector, i) ==
    IF i > zip_len(iterable, selector) THEN [u |-> u, s |-> s]
    ELSE LET iterable_element == iterable[i]
             selector_element == selector[i]
         IN  IF ~contains(u, iterable_element)
             THEN unique_loop(Append(u, iterable_element), Append(s, selector_element),
                              iterable, selector, i + 1)
             ELSE LET k == index(u, iterable_element)
                      us == IF ~isinstance_list(s[k]) THEN <<s[k]>> ELSE s[k].items
                  IN  unique_loop(u, [s EXCEPT ![k] = List(Append(us, selector_element))],
                                  iterable, selector, i + 1)

\* unique_ever_seen that keeps the first selector element of every unique element
unique_ever_seen_first_selector(iterable, selector) ==
    LET r == unique_loop(<<>>, <<>>, iterable, selector, 1)
    IN  [u |-> r.u,
         s |-> [j \in 1..Len(r.s) |->
                  IF isinstance_list(r.s[j]) /\ r.s[j].items # <<>>
                  THEN r.s[j].items[1] ELSE r.s[j]]]

unique_ever_seen(iterable, selector) == unique_loop(<<>>, <<>>, iterable, selector, 1)

\* the selector list of the caller after the call: a selector element that is a list
\* is the very list that was extended for its unique element
selector_after(iterable, selector) ==
    LET r == unique_ever_seen(iterable, selector)
    IN  [i \in 1..Len(selector) |->
           IF /\ i <= zip_len(iterable, selector)
              /\ isinstance_list(selector[i])
              /\ ~contains(SubSeq(iterable, 1, i - 1), iterable[i])
           THEN r.s[index(r.u, iterable[i])]
           ELSE selector[i]]

\* inflection.pluralize on the asset type names of the model
pluralize(name) ==
    CASE name = "connection" -> "connections"
      [] name = "sensor" -> "sensors"
      [] OTHER -> name

\* one dict {key: connection(s), "values": values}
Entry(key, connections, values) ==
    [key |-> key, connections |-> connections, values |-> values]

\* the dict returned: the entry itself, or {groups_name: [entries]}
Simplified(entry) == [groups_name |-> "", entries |-> <<entry>>]

Grouped(groups_name, entries) == [groups_name |-> groups_name, entries |-> entries]

NoDict == Grouped("", <<>>)

\* the entry of one connection group and its values
group_entry(connection_group, value_group, generic_asset_type_name, plural_name) ==
    IF Len(connection_group.items) = 1
    THEN Entry(generic_asset_type_name, connection_group.items[1], value_group)
    ELSE Entry(plural_name, connection_group, value_group)

groups_to_dict(connection_groups, value_groups, generic_asset_type_name, plural_name, groups_name) ==
    LET plural == IF plural_name.some THEN The(plural_name)
                  ELSE pluralize(generic_asset_type_name)
        r == unique_ever_seen(value_groups, connection_groups)
    IN  IF \E j \in 1..Len(r.s) : ~isinstance_list(r.s[j])
        THEN [raised |-> "TypeError", dict |-> NoDict]
        ELSE IF Len(r.u) = 1 /\ Len(r.s) = 1
        THEN [raised |-> "none",
              dict |-> Simplified(group_entry(r.s[1], r.u[1], generic_asset_type_name,
                                              plural))]
        ELSE [raised |-> "none",
              dict |-> Grouped(groups_name,
                               [j \in 1..zip_len(r.s, r.u) |->
                                   group_entry(r.s[j], r.u[j], generic_asset_type_name,
                                               plural)])]

\* connections and value lists of the messages
Connections == {1, 2, 3}

ValueLists == {<<10, 20>>, <<20, 40>>}

\* a selector element: a bare connection, or a group (list) of connections
SelectorElements ==
    {Atom(x) : x \in Connections}
        \cup {List(<<Atom(x)>>) : x \in Connections}
        \cup {List(<<Atom(1), Atom(2)>>)}

InitGrouping ==
    /\ \E n \in 0..MaxMessageGroups :
         \E iterable \in [1..n -> ValueLists], selector \in [1..n -> SelectorElements] :
            grouping = [fn |-> "none", iterable |-> iterable, selector |-> selector,
                        selector_after |-> selector, raised |-> "none",
                        u |-> <<>>, s |-> <<>>, dict |-> NoDict]
    /\ NoRequest /\ NoTimedValues /\ NoConversion /\ NoDataSources
    /\ NoJobs /\ NoTaskRuns /\ NoRequests

CallUniqueEverSeen ==
    /\ grouping.fn = "none"
    /\ LET r == unique_ever_seen(grouping.iterable, grouping.selector)
       IN  grouping' = [grouping EXCEPT
                            !.fn = "unique_ever_seen", !.u = r.u, !.s = r.s,
                            !.selector_after =
                                selector_after(grouping.iterable, grouping.selector)]
    /\ UNCHANGED <<analytics_vars, collect_vars, convert_vars, ds_vars, queue_vars,
                   task_vars, request_vars>>

CallGroupsToDict ==
    /\ grouping.fn = "none"
    /\ LET r == groups_to_dict(grouping.selector, grouping.iterable, "connection", None,
                               "groups")
       IN  grouping' = [grouping EXCEPT
                            !.fn = "groups_to_dict", !.raised = r.raised,
                            !.dict = r.dict,
                            !.selector_after =
                                selector_after(grouping.iterable, grouping.selector)]
    /\ UNCHANGED <<analytics_vars, collect_vars, convert_vars, ds_vars, queue_vars,
                   task_vars, request_vars>>

NextGrouping ==
    \/ CallUniqueEverSeen
    \/ CallGroupsToDict

SpecGrouping == InitGrouping /\ [][NextGrouping]_vars

-----------------------------------------------------------------------------
(* Properties of the analytics pipeline *)

\* both series non-empty, of matching sizes
Comparable(data, forecast) ==
    ~empty(data) /\ ~empty(forecast) /\ size(data) = size(forecast)

AllNaN(keys) == \A k \in keys : metrics[k] = NaN

PowerDependent == {"expected_power_in_mwh", "mae_power_in_mwh", "mape_power", "wape_power"}

PriceDependent == {"expected_unit_price", "mae_unit_price", "mape_unit_price",
                   "wape_unit_price"}

WeatherDependent == {"expected_weather", "mae_weather", "mape_weather", "wape_weather"}

RevenueDependent == {"expected_revenues_costs", "mae_revenues_costs",
                     "mape_revenues_costs", "wape_revenues_costs"}

\* the four dependent metrics hold the values computed from y and yhat
Computed(expected, mae, mape, wape, total, y, yhat) ==
    /\ metrics[expected] = total
    /\ metrics[mae] = mean_absolute_error(y, yhat)
    /\ metrics[mape] = mean_absolute_percentage_error(y, yhat)
    /\ metrics[wape] = weighted_absolute_percentage_error(y, yhat)

HourFactor == resolution_to_hour_factor(resolution)

\* C1: after each of get_power_data, get_prices_data and get_weather_data, the
\* signal's four dependent metrics are all NaN unless the realised and the forecast
\* series are both non-empty with matching sizes, and are then computed from the two
\* series.
C1_DependentMetricsNaNOrComputed ==
    /\ last.fn = "get_power_data" =>
        IF Comparable(power_data, power_forecast_data)
        THEN Computed("expected_power_in_mwh", "mae_power_in_mwh", "mape_power",
                      "wape_power",
                      nansum(Scale(ToFloats(power_forecast_data), HourFactor)),
                      Scale(ToFloats(power_data), HourFactor),
                      Scale(ToFloats(power_forecast_data), HourFactor))
        ELSE AllNaN(PowerDependent)
    /\ last.fn = "get_prices_data" =>
        IF Comparable(prices_data, prices_forecast_data)
        THEN Computed("expected_unit_price", "mae_unit_price", "mape_unit_price",
                      "wape_unit_price", series_mean(ToFloats(prices_forecast_data)),
                      ToFloats(prices_data), ToFloats(prices_forecast_data))
        ELSE AllNaN(PriceDependent)
    /\ last.fn = "get_weather_data" =>
        IF Comparable(weather_data, weather_forecast_data)
        THEN Computed("expected_weather", "mae_weather", "mape_weather",
                      "wape_weather", series_mean(ToFloats(weather_forecast_data)),
                      ToFloats(weather_data), ToFloats(weather_forecast_data))
        ELSE AllNaN(WeatherDependent)

\* get_revenues_costs_data has been called and has returned or raised
RevCalled == last.fn = "get_revenues_costs_data"

AllFourComparable ==
    /\ ~empty(power_data) /\ ~empty(prices_data)
    /\ ~empty(power_forecast_data) /\ ~empty(prices_forecast_data)
    /\ size(power_data) = size(power_forecast_data)
    /\ size(power_data) = size(prices_data)
    /\ size(power_data) = size(prices_forecast_data)

\* C2: after get_revenues_costs_data with an empty input series or with sizes that
\* are not all equal, expected_, mae_, mape_ and wape_revenues_costs are all NaN,
\* whatever the dict held before.
C2_NoForecastAllFourNaN ==
    (RevCalled /\ ~AllFourComparable) => AllNaN(RevenueDependent)

\* C3: get_revenues_costs_data with an empty power or price series sets
\* realised_revenues_costs to NaN and returns normally, whatever the forecast
\* inputs and the dict held.
C3_EmptyInputRealisedNaNNoRaise ==
    (RevCalled /\ (empty(power_data) \/ empty(prices_data))) =>
        /\ metrics["realised_revenues_costs"] = NaN
        /\ last.raised = "none"

\* C3 witness: empty power, all other inputs non-empty, no wape_power in the dict
C3_Witness ==
    /\ RevCalled
    /\ empty(power_data) /\ ~empty(prices_data)
    /\ ~empty(power_forecast_data) /\ ~empty(prices_forecast_data)
    /\ metrics["wape_power"] = Absent
    /\ metrics["realised_revenues_costs"] = NaN
    /\ last.raised = "none"

\* the forecast has been computed by the last call
ForecastComputed == RevCalled /\ AllFourComparable /\ last.raised = "none"

\* C4: when the forecast is computed, the band is symmetric around the derived
\* forecast at every timestamp: yhat_upper - yhat = yhat - yhat_lower =
\* yhat * ((wape_power/100 + wape_unit_price/100) / 2), with
\* yhat = power forecast * hour factor * price forecast * unit_factor.
C4_SymmetricBand ==
    ForecastComputed =>
        /\ Len(rev_cost_forecasts) = Len(power_data)
        /\ \A i \in 1..Len(rev_cost_forecasts) :
            LET f == rev_cost_forecasts[i]
                yhat == mul(mul(mul(I(power_forecast_data[i]), HourFactor),
                                I(prices_forecast_data[i])), last.unit_factor)
                spread == mul(yhat,
                              div(add(div(metrics["wape_power"], Hundred),
                                      div(metrics["wape_unit_price"], Hundred)), I(2)))
            IN  /\ f.yhat = yhat
                /\ sub(f.yhat_upper, f.yhat) = spread
                /\ sub(f.yhat, f.yhat_lower) = spread

\* C4 witness: a computed band of non-zero width around a negative forecast
C4_Witness ==
    /\ ForecastComputed
    /\ Len(rev_cost_forecasts) = 2
    /\ metrics["wape_power"] = I(50)
    /\ leq(rev_cost_forecasts[2].yhat, I(-1))
    /\ rev_cost_forecasts[2].yhat_upper # rev_cost_forecasts[2].yhat

\* the keys a function may write
OwnKeys(fn) ==
    CASE fn = "get_power_data" -> PowerKeys
      [] fn = "get_prices_data" -> PriceKeys
      [] fn = "get_weather_data" -> WeatherKeys
      [] fn = "get_revenues_costs_data" -> RevenueKeys
      [] OTHER -> {}

\* C5: every analytics call leaves the keys of the other signals as they were and
\* removes no key, so the dict accumulates the metrics of the calls made so far.
C5_SharedAccumulator ==
    [][\A k \in MetricKeys :
          /\ k \notin OwnKeys(last'.fn) => metrics'[k] = metrics[k]
          /\ metrics[k] # Absent => metrics'[k] # Absent]_vars

\* C5 witness: the four functions have run, get_revenues_costs_data last, and the
\* dict holds the metrics of all four
C5_Witness ==
    /\ called = {"get_power_data", "get_prices_data", "get_weather_data",
                 "get_revenues_costs_data"}
    /\ RevCalled
    /\ IsNum(metrics["wape_power"]) /\ IsNum(metrics["wape_unit_price"])
    /\ IsNum(metrics["wape_weather"]) /\ IsNum(metrics["wape_revenues_costs"])

\* get_power_data has returned equally long non-empty series
PowerCompared ==
    /\ last.fn = "get_power_data"
    /\ ~empty(power_data)
    /\ Len(power_data) = Len(power_forecast_data)

SumAbsError ==
    sum([i \in 1..Len(power_data) |-> I(AbsInt(power_data[i] - power_forecast_data[i]))])

SumAbsRealised == sum([i \in 1..Len(power_data) |-> I(AbsInt(power_data[i]))])

\* the parts of C6 that hold for every pair of series
C6_Common ==
    /\ leq(Zero, metrics["mae_power_in_mwh"])
    /\ metrics["mae_power_in_mwh"] = Zero <=> power_forecast_data = power_data
    /\ metrics["wape_power"] = mul(div(SumAbsError, SumAbsRealised), Hundred)
    /\ (resolution = 60 /\ power_data = <<10, 20>> /\ power_forecast_data = <<12, 18>>)
        => /\ metrics["mae_power_in_mwh"] = I(2)
           /\ metrics["wape_power"] = Num(4 * 100, 30)

-----------------------------------------------------------------------------
(* Properties of make_query and collect *)

\* the rows of asset a with event time in the query window of the last call
InQueryWindow(a) ==
    {r \in timed_values :
        /\ r.asset = a
        /\ collected.query_window[1] <= r.datetime
        /\ r.datetime < collected.query_window[2]}

\* ... whose own horizon lies in the horizon window of the last call
InHorizonWindow(a) ==
    {r \in InQueryWindow(a) :
        /\ collected.horizon_window[1].some =>
               r.horizon >= The(collected.horizon_window[1])
        /\ collected.horizon_window[2].some =>
               r.horizon <= The(collected.horizon_window[2])}

\* C7: collect applies the source preference per asset: the rows of the preferred
\* sources if there are any (None accepts every source), else the rows of the
\* fallback sources, which for the id -1 are none.  Rows only from source 7 and
\* preferred [3]: fallback [7] returns them, fallback -1 returns nothing.
C7_SourcePreferencePerAsset ==
    collected.fn = "collect" =>
        \A a \in collected.asset_names :
            LET q == InHorizonWindow(a)
                preferred == IF collected.preferred.some
                             THEN {r \in q : r.source \in The(collected.preferred)}
                             ELSE q
                fallback == {r \in q : r.source \in The(collected.fallback)}
                got == collected.result.rows[a]
            IN  /\ got = IF preferred # {} THEN preferred ELSE fallback
                /\ (preferred = {} /\ collected.fallback = Some({-1})) => got = {}
                /\ ((\A r \in q : r.source = 7) /\ collected.preferred = Some({3})) =>
                       got = IF collected.fallback = Some({7}) THEN q ELSE {}

\* C7 witness: two assets summed, one with rows of the preferred source 3, the
\* other with rows of source 7 only, which the fallback [7] returns
C7_Witness ==
    /\ collected.fn = "collect"
    /\ collected.asset_names = {"a1", "a2"}
    /\ collected.sum_multiple
    /\ collected.preferred = Some({3}) /\ collected.fallback = Some({7})
    /\ collected.result.rows["a1"] # {}
    /\ \A r \in collected.result.rows["a1"] : r.source = 3
    /\ collected.result.rows["a2"] # {}
    /\ \A r \in collected.result.rows["a2"] : r.source = 7

\* C8: make_query with rolling = true selects, among the asset's rows with event
\* time in [start, end), only rows whose own horizon h satisfies short <= h <= long,
\* a None bound being open, and all of them when no belief time is given: window
\* (None, 0) gives the rows with horizon <= 0, window (H, None) those with
\* horizon >= H.
C8_RollingHorizonWindow ==
    (collected.fn = "make_query" /\ collected.rolling) =>
        LET a == The([some |-> TRUE, v |-> collected.asset_names])
        IN  /\ collected.query \subseteq InHorizonWindow(a)
            /\ ~collected.belief_time.some => collected.query = InHorizonWindow(a)
            /\ collected.horizon_window = realised_horizon_window =>
                   \A r \in collected.query : r.horizon <= 0
            /\ \A h \in ForecastHorizons :
                   collected.horizon_window = forecast_horizon_window(h) =>
                       \A r \in collected.query : r.horizon >= h

\* C8 witness: the realised window (None, 0) keeps a row and leaves out a forecast
\* row of the same asset and query window
C8_Witness ==
    /\ collected.fn = "make_query" /\ collected.rolling
    /\ collected.horizon_window = realised_horizon_window
    /\ collected.query # {}
    /\ \E a \in collected.asset_names :
        \E r \in InQueryWindow(a) : r.horizon > 0 /\ r \notin collected.query

-----------------------------------------------------------------------------
(* Properties of convert_to_15min *)

\* the expansion of a list by the factor k: element i is values[i div k]
Expanded(out, values, k) ==
    /\ Len(out) = k * Len(values)
    /\ \A i \in 0..(Len(out) - 1) : out[i + 1] = values[(i \div k) + 1]

\* C9: convert_to_15min with from_resolution = k * 15 minutes (k >= 1) returns for
\* a flat list, and for each inner list of a list of groups, the list of length
\* k * len(input) whose element i is input[i div k]; the number of groups is kept,
\* for k = 1 the values are unchanged, for 60 minutes v becomes [v, v, v, v].
C9_RepeatsEachValue ==
    (conversion.fn = "convert_to_15min" /\ conversion.from_resolution % 15 = 0) =>
        LET k == conversion.from_resolution \div 15
            in == conversion.value_groups
            out == conversion.result
        IN  /\ conversion.raised = "none"
            /\ out.flat = in.flat
            /\ in.flat => Expanded(out.values, in.values, k)
            /\ ~in.flat =>
                /\ Len(out.groups) = Len(in.groups)
                /\ \A g \in 1..Len(in.groups) : Expanded(out.groups[g], in.groups[g], k)
            /\ k = 1 => out = in
            /\ (k = 4 /\ in.flat /\ Len(in.values) = 1) =>
                   out.values = <<in.values[1], in.values[1], in.values[1], in.values[1]>>

-----------------------------------------------------------------------------
(* Properties of get_or_create_user_data_source *)

\* every user has at most one DataSource, the user of the last call exactly one,
\* which is the one the call returned
OnePerUser ==
    /\ \A u \in Users : Cardinality(OfUser(data_sources, u)) <= 1
    /\ ds_call.fn # "none" =>
        /\ ds_call.raised = "none"
        /\ OfUser(data_sources, ds_call.user) = {ds_call.data_source}
    /\ ds_call.fn = "post_price_data" => ds_call.status = 200

\* a call for a registered user returns the user's record and adds nothing, a call
\* for another user adds one record, of that user, and returns it; no record is
\* removed or changed
CreateOrGet ==
    LET before == OfUser(data_sources, ds_call'.user)
    IN  /\ data_sources \subseteq data_sources'
        /\ IF before # {}
           THEN data_sources' = data_sources /\ ds_call'.data_source \in before
           ELSE /\ data_sources' = data_sources \cup {ds_call'.data_source}
                /\ ds_call'.data_source \notin data_sources
                /\ ds_call'.data_source.user = ds_call'.user

\* C10: get_or_create_user_data_source is an idempotent create-or-get within one
\* session: every user it was called for has exactly one DataSource, a call for a
\* registered user returns the record and adds nothing, a call for another user adds
\* exactly one and returns it, the DataSources of other users are untouched, and a
\* price post by an unregistered user succeeds and leaves the user registered.
C10_IdempotentCreateOrGet == []OnePerUser /\ [][CreateOrGet]_vars

\* C10 witness: a price post by a user without a DataSource, while another user
\* has one, has succeeded and has registered the user
C10_Witness ==
    /\ ds_call.fn = "post_price_data"
    /\ ds_call.created /\ ds_call.status = 200
    /\ OfUser(data_sources, ds_call.user) = {ds_call.data_source}
    /\ Cardinality(data_sources) >= 2

-----------------------------------------------------------------------------
(* Properties of the price post *)

\* the step is a price post answered with the given status
PricePosted(status) ==
    /\ ds_call'.fn = "post_price_data"
    /\ ds_call'.status = status

\* C11: every price post answered with 200 puts exactly one job per forecast
\* horizon (24h, then 48h) on the forecasting queue, behind the jobs already
\* there, each with horizon = that horizon, start = posted start + horizon,
\* timed_value_type = "Price" and asset_id = the market's id; the jobs are still
\* on the queue when the post has returned, and only a worker takes them off;
\* a post that is not answered with 200 queues nothing
C11_TwoJobsPerPricePost ==
    [][\/ /\ PricePosted(200)
          /\ Len(forecasting') = Len(forecasting) + 2
          /\ SubSeq(forecasting', 1, Len(forecasting)) = forecasting
          /\ \A i \in 1..2 :
                LET job == forecasting'[Len(forecasting) + i]
                    horizon == <<24, 48>>[i]
                IN  /\ job.horizon = horizon
                    /\ job.start = ds_call'.start + horizon
                    /\ job.timed_value_type = "Price"
                    /\ job.asset_id = ds_call'.market
       \/ /\ ~PricePosted(200)
          /\ forecasting' = forecasting
       \/ /\ ds_call' = ds_call
          /\ forecasting # <<>>
          /\ forecasting' = Tail(forecasting)]_vars

\* a registered user's post for market 2 has returned 200 and its two jobs wait
C11_Witness ==
    /\ ds_call.fn = "post_price_data"
    /\ ds_call.status = 200
    /\ ds_call.market = 2
    /\ ds_call.start = 6
    /\ Len(forecasting) = 2
    /\ forecasting[1] = forecasting_job(24, 30, "Price", 2)
    /\ forecasting[2] = forecasting_job(48, 54, "Price", 2)

-----------------------------------------------------------------------------
(* Properties of the task run endpoints *)

\* the step is a call of the given endpoint
TaskCalled(fn) == task_call' # task_call /\ task_call'.fn = fn

\* the form of the last post
PostedForm == Form(task_call.name, task_call.status, task_call.datetime)

\* what get_task_run answers for the task name, asked after the step
AnswerAfter(task_name) == get_task_run(task_runs', Some(task_name))

\* every task name has at most one stored run
OneRunPerName == \A r1, r2 \in task_runs : r1.name = r2.name => r1 = r2

\* a post answered with 200 leaves exactly one run of its name, with the status and
\* datetime of the post, and get_task_run then reports that run; the runs of other
\* names stay; no other step changes the stored runs
LatestRunStored ==
    IF TaskCalled("post_task_run") /\ task_call'.code = 200
    THEN LET task_name == The(task_call'.name)
             status == IF task_call'.status.some
                       THEN The(task_call'.status) = "True" ELSE TRUE
             datetime == IF task_call'.datetime.some
                         THEN The(task_call'.datetime) ELSE now
         IN  /\ task_call'.name.some /\ task_name # ""
             /\ Named(task_runs', task_name) =
                    {[name |-> task_name, status |-> status, datetime |-> datetime]}
             /\ \A other \in TaskNames \ {task_name} :
                    Named(task_runs', other) = Named(task_runs, other)
             /\ AnswerAfter(task_name).code = 200
             /\ AnswerAfter(task_name).body.lastrun = datetime
             /\ AnswerAfter(task_name).body.status = "OK" <=> status
    ELSE task_runs' = task_runs

\* C12: after any sequence of post_task_run calls every task name has at most one
\* stored LatestTaskRun; a call that returns 200 leaves exactly one for its name,
\* holding the status and datetime of that call (true and now when the fields are
\* omitted), which a following get_task_run reports as lastrun and as status "OK"
\* exactly if the status is true; runs of other names are not changed, and no call
\* that does not return 200 changes a run, so the stored run is that of the most
\* recent such call.
C12_LatestRunPerName == []OneRunPerName /\ [][LatestRunStored]_vars

\* task a was posted as failed at a given time after an earlier successful run, task b
\* keeps its run, and the stored run of a is the later post
C12_Witness ==
    /\ task_call.fn = "post_task_run" /\ task_call.code = 200
    /\ task_call.name = Some("a") /\ task_call.status = Some("False")
    /\ task_call.datetime = Some(2)
    /\ now = 3
    /\ task_runs = {[name |-> "a", status |-> FALSE, datetime |-> 2],
                    [name |-> "b", status |-> TRUE, datetime |-> 1]}

\* the last call was get_task_run for a task name that is not empty
AskedForTask ==
    /\ task_call.fn = "get_task_run"
    /\ task_call.name.some /\ The(task_call.name) # ""

\* the answer of the last get_task_run is the one the stored runs give
AnswersFromStore ==
    AskedForTask =>
        LET found == Named(task_runs, The(task_call.name))
        IN  /\ task_call.raised = "none"
            /\ {"lastrun", "status", "frequency"} \subseteq task_call.body.keys
            /\ IF found = {}
               THEN /\ task_call.code = 400
                    /\ task_call.body.status = "ERROR"
                    /\ task_call.body.lastrun = 0
               ELSE /\ task_call.code = 200
                    /\ \E r \in found :
                        /\ task_call.body.lastrun = r.datetime
                        /\ task_call.body.status = IF r.status THEN "OK" ELSE "ERROR"

\* C13: get_task_run for a non-empty task name changes no stored run and answers
\* from the stored runs: 400 with status "ERROR" and lastrun 1970-01-01 when no run
\* of the name is stored, 200 with the stored datetime as lastrun and status "OK"
\* for a true stored status, "ERROR" otherwise; the answer has lastrun, status and
\* frequency.
C13_GetAnswersFromStore ==
    []AnswersFromStore /\ [][TaskCalled("get_task_run") => task_runs' = task_runs]_vars

\* a stored failed run of task a is reported with 200, status ERROR and its datetime
C13_Witness ==
    /\ AskedForTask
    /\ task_call.name = Some("a")
    /\ task_call.code = 200
    /\ task_call.body.status = "ERROR"
    /\ task_call.body.lastrun = 2
    /\ task_call.body.frequency = 5
    /\ [name |-> "a", status |-> FALSE, datetime |-> 2] \in task_runs

\* C14: get_task_run without a task name (the parameter absent, or empty) does
\* not raise and answers 400 with status "ERROR" and reason "No task name given."
C14_NoTaskNameIsStructured400 ==
    (task_call.fn = "get_task_run" /\ (~task_call.name.some \/ task_call.name = Some("")))
        => /\ task_call.raised = "none"
           /\ task_call.code = 400
           /\ task_call.body.status = "ERROR"
           /\ task_call.body.reason = [text |-> "No task name given.", arg |-> ""]

\* the last call was post_task_run without a task name
PostedWithoutName ==
    /\ task_call.fn = "post_task_run"
    /\ ~task_call.name.some \/ task_call.name = Some("")

\* C15: post_task_run with the name field absent or empty answers 400 with
\* {"status": "ERROR", "reason": "No task name given."} and nothing else, and the
\* stored runs are as before the call.
C15_PostWithoutName ==
    /\ [](PostedWithoutName =>
            /\ task_call.raised = "none"
            /\ task_call.code = 400
            /\ task_call.body = Body({"status", "reason"}, "ERROR", "No task name given.",
                                     "", Epoch, 0))
    /\ [][(TaskCalled("post_task_run")
            /\ (~task_call'.name.some \/ task_call'.name = Some("")))
          => task_runs' = task_runs]_vars

\* a post with an empty name, a status and a datetime was refused while runs are stored
C15_Witness ==
    /\ PostedWithoutName
    /\ task_call.name = Some("")
    /\ task_call.status = Some("False")
    /\ task_call.code = 400
    /\ task_runs # {}

\* the failure of the last post struck: the lookup, the commit, or the add of a task
\* that had no run
FailureStruck(table) ==
    /\ task_call.fn = "post_task_run"
    /\ task_call.name.some /\ The(task_call.name) # ""
    /\ \/ task_call.failure.at \in {"lookup", "commit"}
       \/ task_call.failure.at = "add" /\ Named(table, The(task_call.name)) = {}

\* C16: when the lookup, the add or the commit fails inside post_task_run the call
\* does not raise: it answers 500 with status "ERROR" and the message of the
\* exception as reason, and the stored runs are as before; a call that answers 200
\* has committed its run.
C16_FailureIs500 ==
    /\ [](FailureStruck(task_runs) =>
            /\ task_call.raised = "none"
            /\ task_call.code = 500
            /\ task_call.body = Body({"status", "reason"}, "ERROR",
                                     task_call.failure.message, "", Epoch, 0))
    /\ []((task_call.fn = "post_task_run" /\ task_call.code = 200) =>
            posted_run(PostedForm, task_call.utcnow) \in task_runs)
    /\ [][(TaskCalled("post_task_run") /\ task_call'.code = 500)
          => task_runs' = task_runs]_vars

\* the commit of a post for task a failed, and the earlier run of a is still stored
C16_Witness ==
    /\ FailureStruck(task_runs)
    /\ task_call.failure.at = "commit"
    /\ task_call.name = Some("a") /\ task_call.status = Some("False")
    /\ task_call.code = 500
    /\ task_call.body.reason.text = "commit failed"
    /\ task_runs = {[name |-> "a", status |-> TRUE, datetime |-> 1]}

-----------------------------------------------------------------------------
(* Properties of unique_ever_seen and groups_to_dict *)

\* the positions of the input that hold the given element, and the k-th of them
PositionsOf(element) ==
    {i \in 1..Len(grouping.iterable) : grouping.iterable[i] = element}

Kth(positions, k) == CHOOSE i \in positions : Cardinality({x \in positions : x < i}) = k - 1

FirstOf(element) == Kth(PositionsOf(element), 1)

\* the selector elements at the given positions, in input order
SelectedAt(positions) ==
    [k \in 1..Cardinality(positions) |-> grouping.selector[Kth(positions, k)]]

\* u holds every element of the input once, in order of first occurrence
DistinctInFirstOccurrenceOrder(u) ==
    /\ \A j, k \in 1..Len(u) : u[j] = u[k] => j = k
    /\ {u[j] : j \in 1..Len(u)} = {grouping.iterable[i] : i \in 1..Len(grouping.iterable)}
    /\ \A j, k \in 1..Len(u) : j < k => FirstOf(u[j]) < FirstOf(u[k])

\* C18: on equally long inputs with bare (non-list) selector elements
\* unique_ever_seen returns (u, s) with u the distinct elements of the iterable in
\* order of first occurrence, len(s) = len(u), and s[j] the selector elements of
\* exactly the positions that hold u[j], in input order: the bare element for one
\* position, a list for several; ([[10,20],[10,20],[20,40]], [1,2,3]) gives
\* ([[10,20],[20,40]], [[1,2],3]).
C18_UniqueEverSeen ==
    (/\ grouping.fn = "unique_ever_seen"
     /\ Len(grouping.iterable) = Len(grouping.selector)
     /\ \A i \in 1..Len(grouping.selector) : grouping.selector[i].atom)
    => /\ DistinctInFirstOccurrenceOrder(grouping.u)
       /\ Len(grouping.s) = Len(grouping.u)
       /\ \A j \in 1..Len(grouping.u) :
            LET positions == PositionsOf(grouping.u[j])
            IN  IF Cardinality(positions) = 1
                THEN grouping.s[j] = grouping.selector[Kth(positions, 1)]
                ELSE grouping.s[j] = List(SelectedAt(positions))
       /\ (/\ grouping.iterable = <<<<10, 20>>, <<10, 20>>, <<20, 40>>>>
           /\ grouping.selector = <<Atom(1), Atom(2), Atom(3)>>)
          => /\ grouping.u = <<<<10, 20>>, <<20, 40>>>>
             /\ grouping.s = <<List(<<Atom(1), Atom(2)>>), Atom(3)>>

\* the call of the docstring has returned
C18_Witness ==
    /\ grouping.fn = "unique_ever_seen"
    /\ grouping.iterable = <<<<10, 20>>, <<10, 20>>, <<20, 40>>>>
    /\ grouping.selector = <<Atom(1), Atom(2), Atom(3)>>
    /\ grouping.s = <<List(<<Atom(1), Atom(2)>>), Atom(3)>>

RECURSIVE Flat(_)
\* the connections of the given groups (lists), in one flat sequence
Flat(groups) ==
    IF groups = <<>> THEN <<>> ELSE Head(groups).items \o Flat(Tail(groups))

RECURSIVE DistinctOf(_, _)
\* the distinct elements of a sequence in order of first occurrence
DistinctOf(seq, seen) ==
    IF seq = <<>> THEN seen
    ELSE DistinctOf(Tail(seq), IF contains(seen, Head(seq)) THEN seen
                               ELSE Append(seen, Head(seq)))

\* the entry the docstring shows for one value list: its values once, and the flat
\* list of the connections of all groups that have these values
MergedEntry(values) ==
    LET connections == Flat(SelectedAt(PositionsOf(values)))
    IN  IF Len(connections) = 1
        THEN Entry("connection", connections[1], values)
        ELSE Entry("connections", List(connections), values)

\* C17: for connection groups given as lists groups_to_dict simplifies as its
\* docstring shows: groups with identical value lists are merged into one entry
\* with those values once and the flat list of all their connections; one
\* remaining group gives the entry itself, several give {"groups": [...]} with one
\* entry per distinct value list in first-occurrence order; an entry has the
\* singular key for one connection and the plural key for several.
C17_SimplifiesAsDocumented ==
    (/\ grouping.fn = "groups_to_dict"
     /\ Len(grouping.iterable) >= 1
     /\ \A i \in 1..Len(grouping.selector) : ~grouping.selector[i].atom)
    => LET distinct == DistinctOf(grouping.iterable, <<>>)
       IN  /\ grouping.raised = "none"
           /\ grouping.dict =
                IF Len(distinct) = 1
                THEN Simplified(MergedEntry(distinct[1]))
                ELSE Grouped("groups",
                             [j \in 1..Len(distinct) |-> MergedEntry(distinct[j])])

-----------------------------------------------------------------------------
(* Properties of concurrent ingestion requests *)

\* C19: one DataSource per user also under interleaving: when the requests, each
\* in a session of its own, have run get_or_create_user_data_source with their
\* steps interleaved in any order and have all committed, every user of a request
\* has exactly one DataSource.
C19_OnePerUserUnderInterleaving ==
    (\A r \in Requests : requests[r].pc = "committed")
        => \A r \in Requests : Cardinality(OfUser(data_sources, requests[r].user)) = 1

-----------------------------------------------------------------------------
(* Properties of the pipeline of power, prices and revenues *)

\* the step is the call of get_revenues_costs_data
RevenuesStep ==
    /\ "get_revenues_costs_data" \notin called
    /\ "get_revenues_costs_data" \in called'

\* the call takes the forecast branch: the four frames the caller holds are all
\* non-empty, of equal sizes
ForecastBranch ==
    ~no_forecast(power_data, prices_data, power_forecast_data, prices_forecast_data)

\* wape_power and wape_unit_price are in the dict, computed from the frames the
\* caller holds
WapesComputed ==
    /\ Comparable(power_data, power_forecast_data)
    /\ metrics["wape_power"] # Absent
    /\ metrics["wape_power"] =
           weighted_absolute_percentage_error(
               Scale(ToFloats(power_data), HourFactor),
               Scale(ToFloats(power_forecast_data), HourFactor))
    /\ Comparable(prices_data, prices_forecast_data)
    /\ metrics["wape_unit_price"] # Absent
    /\ metrics["wape_unit_price"] =
           weighted_absolute_percentage_error(ToFloats(prices_data),
                                              ToFloats(prices_forecast_data))

\* C20: when get_power_data and get_prices_data have run on the metrics dict and
\* get_revenues_costs_data is then called on the same dict with the four frames they
\* returned, then in the forecast branch wape_power and wape_unit_price are in the
\* dict, computed by the two calls from these frames (not the NaN of their else
\* branch), the call reads them and returns; called on a dict that lacks one of the
\* two keys, the forecast branch raises KeyError.
C20_PipelineOrdering ==
    [][(RevenuesStep /\ ForecastBranch) =>
         /\ ({"get_power_data", "get_prices_data"} \subseteq called
                /\ last'.lacking = {})
            => /\ WapesComputed
               /\ last'.raised = "none"
               /\ \A k \in WapeKeys : metrics'[k] = metrics[k]
         /\ (\E k \in WapeKeys : Lacking(metrics, last'.lacking)[k] = Absent)
            => last'.raised = "KeyError"]_vars

\* after power and prices, the revenues call took the forecast branch on the same
\* dict and returned a band
C20_Witness ==
    /\ called = {"get_power_data", "get_prices_data", "get_revenues_costs_data"}
    /\ last.fn = "get_revenues_costs_data"
    /\ last.lacking = {}
    /\ last.raised = "none"
    /\ ForecastBranch
    /\ Len(power_data) = 2
    /\ metrics["wape_power"] = I(50)
    /\ metrics["wape_unit_price"] = I(20)
    /\ metrics["wape_revenues_costs"] # Absent

-----------------------------------------------------------------------------
(* Properties of the forecast band and of the realised power total *)

\* the band of timestamp i is ordered
Ordered(i) ==
    /\ leq(rev_cost_forecasts[i].yhat_lower, rev_cost_forecasts[i].yhat)
    /\ leq(rev_cost_forecasts[i].yhat, rev_cost_forecasts[i].yhat_upper)

\* the forecast has been computed from two WAPEs that are not negative
ForecastComputedFromWapes ==
    /\ ForecastComputed
    /\ leq(Zero, metrics["wape_power"])
    /\ leq(Zero, metrics["wape_unit_price"])

\* C21: in the forecast branch of get_revenues_costs_data, with wape_power >= 0 and
\* wape_unit_price >= 0, the bounds are ordered at every timestamp,
\* yhat_lower <= yhat <= yhat_upper, also where the derived forecast yhat is negative.
C21_BandOrdered ==
    ForecastComputedFromWapes => \A i \in 1..Len(rev_cost_forecasts) : Ordered(i)

\* the step is the call of get_power_data
PowerStep ==
    /\ "get_power_data" \notin called
    /\ "get_power_data" \in called'

\* the four dependent power metrics are as the call writes them: computed from the
\* two series, or NaN
DependentPowerWritten ==
    IF Comparable(power_data, power_forecast_data)
    THEN Computed("expected_power_in_mwh", "mae_power_in_mwh", "mape_power", "wape_power",
                  nansum(Scale(ToFloats(power_forecast_data), HourFactor)),
                  Scale(ToFloats(power_data), HourFactor),
                  Scale(ToFloats(power_forecast_data), HourFactor))
    ELSE AllNaN(PowerDependent)

\* C22: get_power_data with an empty realised series does not write
\* realised_power_in_mwh: the key keeps the value the dict held before the call, or
\* stays absent; with a non-empty realised series the key is overwritten with the
\* sum of the realised values times the hour factor; the other four power metrics
\* are written in every call.
C22_RealisedTotalKeptWhenEmpty ==
    /\ [](last.fn = "get_power_data" => DependentPowerWritten)
    /\ [][PowerStep =>
            /\ IF empty(power_data')
               THEN metrics'["realised_power_in_mwh"] = metrics["realised_power_in_mwh"]
               ELSE metrics'["realised_power_in_mwh"] =
                        nansum(Scale(ToFloats(power_data'), HourFactor))
            /\ \A k \in MetricKeys \ PowerKeys : metrics'[k] = metrics[k]]_vars

\* a call with no realised values has left the total of an earlier request in the
\* dict, next to the NaN of this call
C22_Witness ==
    /\ last.fn = "get_power_data"
    /\ empty(power_data)
    /\ ~empty(power_forecast_data)
    /\ metrics["realised_power_in_mwh"] = I(7)
    /\ metrics["wape_power"] = NaN

====
